---- MODULE Spec2Model ----
(***************************************************************************)
(* State-machine model of CloudWatchLogger (src/pg/index.ts): the buffers, *)
(* the oversized-message policy, the flush coroutine with its halve-and-   *)
(* retry loop, and the provisioning registry.                              *)
(*                                                                         *)
(* JavaScript arrays are objects: the model keeps them in a heap (arr) and *)
(* the Map of buffers and the flush entries hold references into it, so    *)
(* that sharing of an array between a buffer and a captured batch is       *)
(* something the model can express.  A flush is an async function: it runs *)
(* synchronously up to its next await and is resumed by the response of    *)
(* the remote call it awaits.                                              *)
(***************************************************************************)
EXTENDS Integers, Sequences, FiniteSets, TLC

VARIABLES
    overSizedMessageAction, \* Config["overSizedMessageAction"]
    flushInterval,          \* _flushInterval
    flushIntervalInterval,  \* the timer of setInterval, or undefined (not armed)
    bufferedLogs,           \* the Map key -> Log[], in insertion order, of references
    arr,                    \* heap of Log[] arrays, by reference
    logGroups,              \* registry Map group -> string[]
    flushes,                \* one record per flush() call: the _flush coroutine
    logged,                 \* history: one record per log() call, by event id
    unhandledRejection,     \* a promise of logError's send was rejected with no handler
    mod                     \* the module-level logger of src/unnamed/part_003: its
                            \* variables, timers and running flushes, as one record

vars == <<overSizedMessageAction, flushInterval, flushIntervalInterval,
          bufferedLogs, arr, logGroups, flushes, logged, unhandledRejection, mod>>

\* What the constructor sets and no method changes.
config == <<overSizedMessageAction, flushInterval, flushIntervalInterval>>

----------------------------------------------------------------------------
(* Bounds of the model *)

MaxLogs == 2
MaxFlushes == 2

----------------------------------------------------------------------------
(* Program constants *)

CLOUDWATCH_FIXED_EVENT_PREFIX == 26
CLOUDWATCH_MAX_EVENT_SIZE == 2^18 - CLOUDWATCH_FIXED_EVENT_PREFIX
CLOUDWTACH_MAX_BUFFER_LENGTH == 10000
CLOUDWATCH_MAX_BUFFER_SIZE == 2^20

Policies == {"clip", "error", "console"}

\* The destinations the application logs to, and the fixed destination of logError.
Dests == {<<"g", "s1">>, <<"g", "s2">>}
DiagDest == <<"cloudwatch_logger", "errors">>
Timestamps == {100, 200}

----------------------------------------------------------------------------
(* Messages.  A message is a string; what the code reads of it is its      *)
(* UTF-8 encoding.  It is modelled as a sequence of runs [w, n]: n         *)
(* characters of w bytes each (w in 1..4).                                 *)

Run(w, n) == [w |-> w, n |-> n]

RECURSIVE ByteLength(_)
ByteLength(m) ==
    IF m = <<>> THEN 0 ELSE Head(m).w * Head(m).n + ByteLength(Tail(m))

\* U+FFFD, what toString() decodes an incomplete byte sequence to: 3 bytes.
ReplacementChar == Run(3, 1)

\* Appends a run, merging it with an equal-width last run (string concatenation).
AddRun(m, r) ==
    IF r.n = 0 THEN m
    ELSE IF m # <<>> /\ m[Len(m)].w = r.w
         THEN [m EXCEPT ![Len(m)].n = @ + r.n]
         ELSE Append(m, r)

\* Buffer.from(message).subarray(0, k).toString(): the first k bytes, decoded.
\* A character cut by the byte boundary decodes to one U+FFFD.
RECURSIVE SubarrayToString(_, _)
SubarrayToString(m, k) ==
    IF m = <<>> \/ k = 0 THEN <<>>
    ELSE LET r == Head(m)
             bytes == r.w * r.n
         IN  IF bytes <= k
             THEN <<r>> \o SubarrayToString(Tail(m), k - bytes)
             ELSE LET whole == k \div r.w
                      cut == k % r.w
                      kept == IF whole > 0 THEN <<Run(r.w, whole)>> ELSE <<>>
                  IN  IF cut > 0 THEN AddRun(kept, ReplacementChar) ELSE kept

ClipMessage(message) == SubarrayToString(message, CLOUDWATCH_MAX_EVENT_SIZE)

logEventExceedsSize(log) == ByteLength(log.message) > CLOUDWATCH_MAX_EVENT_SIZE

\* "test", and the 2^20-byte string of the demo script.
SmallMsg == <<Run(1, 4)>>
HugeMsg == <<Run(1, 2^20)>>
Messages == {SmallMsg, HugeMsg}

----------------------------------------------------------------------------
(* Helpers on sequences *)

Range(s) == {s[i] : i \in DOMAIN s}
Min(a, b) == IF a < b THEN a ELSE b
Ids(s) == {s[i].id : i \in DOMAIN s}

RECURSIVE Flatten(_)
Flatten(ss) == IF ss = <<>> THEN <<>> ELSE Head(ss) \o Flatten(Tail(ss))

Count(s, id) == Cardinality({i \in DOMAIN s : s[i].id = id})

----------------------------------------------------------------------------
(* The buffers: a Map from key to Log[] (insertion-ordered), by reference *)

HasKey(bl, key) == \E i \in DOMAIN bl : bl[i].key = key
RefOf(bl, key) == bl[CHOOSE i \in DOMAIN bl : bl[i].key = key].ref

\* pushLog: creates the buffer of a new key, then pushes onto the key's array.
PushLog(bl, heap, key, log) ==
    IF HasKey(bl, key)
    THEN [bl |-> bl,
          arr |-> [heap EXCEPT ![RefOf(bl, key)] = Append(@, log)]]
    ELSE [bl |-> Append(bl, [key |-> key, ref |-> Len(heap) + 1]),
          arr |-> Append(heap, <<log>>)]

MessageSize(log) == ByteLength(log.message) + CLOUDWATCH_FIXED_EVENT_PREFIX

RECURSIVE BufferSize(_)
BufferSize(logs) ==
    IF logs = <<>> THEN 0 ELSE MessageSize(Head(logs)) + BufferSize(Tail(logs))

reachedBufferLimits(bl, heap, key, newLog) ==
    IF ~HasKey(bl, key) THEN FALSE
    ELSE LET logs == heap[RefOf(bl, key)]
         IN  IF Len(logs) + 1 >= CLOUDWTACH_MAX_BUFFER_LENGTH THEN TRUE
             ELSE BufferSize(logs) + MessageSize(newLog) >= CLOUDWATCH_MAX_BUFFER_SIZE

\* The comparator of value.sort: (a, b) => a.timestamp - b.timestamp.
CompareDescending(a, b) == b.timestamp - a.timestamp
Compare(a, b) == a.timestamp - b.timestamp

\* Where Array.prototype.sort (a stable sort) puts x in an already sorted prefix:
\* after every element that does not compare greater than x.
InsertAfterLess(sorted, x) ==
    LET n == Cardinality({i \in DOMAIN sorted : Compare(sorted[i], x) < 0})
    IN  SubSeq(sorted, 1, n) \o <<x>> \o SubSeq(sorted, n + 1, Len(sorted))
Insert(sorted, x) ==
    LET n == Cardinality({i \in DOMAIN sorted : Compare(sorted[i], x) <= 0})
    IN  SubSeq(sorted, 1, n) \o <<x>> \o SubSeq(sorted, n + 1, Len(sorted))

RECURSIVE SortLogs(_)
SortLogs(logs) ==
    IF logs = <<>> THEN <<>>
    ELSE Insert(SortLogs(SubSeq(logs, 1, Len(logs) - 1)), logs[Len(logs)])

\* What the Map holds for a key after getOrderedLogs took its array `old`:
\* this.bufferedLogs.set(key, []) stores the new array `fresh`.
KeepArray(old, fresh) == old
DrainTarget(old, fresh) == fresh

\* getOrderedLogs: for every key, in Map order: replaces the buffer by a new empty
\* array and takes the old array, sorted in place, as the key's batch.
GetOrderedLogs(bl, heap) ==
    LET n == Len(bl)
        taken == {bl[i].ref : i \in 1..n}
    IN  [entries |-> bl,
         bl |-> [i \in 1..n |->
                    [key |-> bl[i].key,
                     ref |-> DrainTarget(bl[i].ref, Len(heap) + i)]],
         arr |-> [r \in 1..(Len(heap) + n) |->
                    IF r > Len(heap) THEN <<>>
                    ELSE IF r \in taken THEN SortLogs(heap[r]) ELSE heap[r]]]

----------------------------------------------------------------------------
(* Errors.  An error is the chain of the names of the error and of its     *)
(* causes: new Error(msg, {cause: e}) puts "Error" in front of e's chain.  *)

NoError == <<>>
RemoteError(name) == <<name>>
Wrap(error) == <<"Error">> \o error

\* error instanceof ResourceAlreadyExistsException, or error.name is that name.
NeverAlreadyExists(error) == FALSE
isResourceAlreadyExistsException(error) ==
    error # <<>> /\ Head(error) = "ResourceAlreadyExistsException"

\* error instanceof InvalidParameterException
IsInvalidParameterException(error) ==
    error # <<>> /\ Head(error) = "InvalidParameterException"

\* The answers of the remote sink to client.send: a create call succeeds or throws,
\* a put-batch call returns an HTTP status or throws.
CreateResults == {"ok", "ResourceAlreadyExistsException", "ServiceUnavailableException"}
PutResults == {"200", "202", "InvalidParameterException", "ServiceUnavailableException"}
PutFailures == {"InvalidParameterException", "ServiceUnavailableException"}

\* The answers drawn in Spec: the call succeeds, or the sink is unavailable.
CreateOkOrDown == {"ok", "ServiceUnavailableException"}
PutOkOrDown == {"200", "ServiceUnavailableException"}

----------------------------------------------------------------------------
(* The _flush coroutine.  The operators below take and return a record m   *)
(* = [f, lg, arr]: the coroutine f, the registry and the heap; each runs   *)
(* the code from one point up to the next await of the coroutine.          *)
(*   f.pc: "cg", "cs", "put", "put2": awaiting the answer to the create-   *)
(*         group, create-stream, first and second put-batch call;          *)
(*         "ret": awaiting a putEventLogs that returned at once; "done".   *)
(*   f.entries, f.i: the OrderedLogs and the index of the for loop.        *)
(*   f.retry, f.half, f.partial, f.error: inside the catch block with its  *)
(*         while loop; `half`, `partial` and the caught `error`.           *)
(*   f.stale: the `logGroup` array createLogStream holds is no longer the  *)
(*         one in the registry.                                            *)
(*   f.snap, f.calls: history: per entry the buffer as it was when flush() *)
(*         took it (raw) and the batch made of it (logs); the remote calls *)
(*         in the order they were issued.  f.resumed: history: how often   *)
(*         the coroutine was resumed from an await.                        *)

CurEntry(m) == m.f.entries[m.f.i]
CurGroup(m) == CurEntry(m).key[1]
CurStream(m) == CurEntry(m).key[2]
Logs(m) == m.arr[CurEntry(m).ref]

\* The logEvents argument of the running putEventLogs.
LogEvents(m) == IF m.f.retry THEN m.f.partial ELSE Logs(m)

\* A remote call: the command, where it is sent, its logEvents, the sink's answer,
\* and the entry of the for loop it was made for.
Call(op, dest, about, batch, note) ==
    [op |-> op, dest |-> dest, about |-> about, batch |-> batch,
     res |-> "pending", note |-> note]

\* client.send(command), awaited at pc.
Send(m, op, batch, pc) ==
    [m EXCEPT !.f.pc = pc,
              !.f.calls = Append(@, Call(op, CurEntry(m).key, CurEntry(m).key, batch, ""))]

SendFirstEventOnly(m) == Send(m, "PutLogEvents", SubSeq(LogEvents(m), 1, 1), "put")
SendPutLogEvents(m) == Send(m, "PutLogEvents", LogEvents(m), "put")

\* createLogStream after createLogGroup returned (lines 406-416).
AfterCreateLogGroup(m) ==
    IF CurStream(m) \in Range(m.lg[CurGroup(m)])
    THEN SendPutLogEvents(m)
    ELSE [Send(m, "CreateLogStream", <<>>, "cs") EXCEPT !.f.stale = FALSE]

\* createLogStream, which starts with createLogGroup (lines 375-383, 403-404).
CreateLogStream(m) ==
    IF CurGroup(m) \in DOMAIN m.lg
    THEN AfterCreateLogGroup(m)
    ELSE Send(m, "CreateLogGroup", <<>>, "cg")

\* putEventLogs, from its call to its first await.
PutEventLogsSkipsSingle(m) ==
    IF Len(LogEvents(m)) <= 1
    THEN [m EXCEPT !.f.pc = "ret"]
    ELSE CreateLogStream(m)
PutEventLogsAlways(m) == CreateLogStream(m)
PutEventLogs(m) ==
    IF LogEvents(m) = <<>>
    THEN [m EXCEPT !.f.pc = "ret"]
    ELSE CreateLogStream(m)

\* The for loop of _flush moves to its next entry, or _flush returns.
NextEntry(m) ==
    LET m1 == [m EXCEPT !.f.retry = FALSE, !.f.half = 0, !.f.partial = <<>>,
                        !.f.error = NoError, !.f.stale = FALSE]
    IN  IF m.f.i >= Len(m.f.entries)
        THEN [m1 EXCEPT !.f.pc = "done"]
        ELSE PutEventLogs([m1 EXCEPT !.f.i = @ + 1])

\* record.message = Buffer.from(record.message).subarray(0, MAX).toString()
ClipRecords(partial) ==
    [i \in DOMAIN partial |->
        [partial[i] EXCEPT !.message = ClipMessage(@)]]

\* One test of `while (logs.length)` and, when it holds, the body up to its await.
RetryLoop(m) ==
    IF Logs(m) = <<>>
    THEN NextEntry(m)
    ELSE LET logs == Logs(m)
             k == Min(m.f.half, Len(logs))
             partial == SubSeq(logs, 1, k)
             rest == SubSeq(logs, k + 1, Len(logs))
         IN  PutEventLogs(
                [m EXCEPT !.arr[CurEntry(m).ref] = rest,
                          !.f.partial = IF IsInvalidParameterException(m.f.error)
                                        THEN ClipRecords(partial)
                                        ELSE partial])

\* The awaited putEventLogs returned: the for loop, or the while loop, goes on.
PutReturned(m) == IF m.f.retry THEN RetryLoop(m) ELSE NextEntry(m)

\* logError: client.send(PutLogEventsCommand) to the fixed destination, not awaited.
LogErrorSkipped(m, note) == m
LogError(m, note) ==
    [m EXCEPT !.f.calls =
        Append(@, Call("PutLogEvents", DiagDest, CurEntry(m).key, <<>>, note))]

\* Math.ceil(logs.length / 2)
HalfFloor(n) == n \div 2
Half(n) == (n + 1) \div 2

\* The while loop was left by an exception: the outer catch block.
RetryFailedRaises(m) == [m EXCEPT !.f.pc = "raised"]
RetryFailedEndsFlush(m) ==
    [LogError(m, "flushing error") EXCEPT !.f.pc = "done", !.f.retry = FALSE]
RetryFailed(m) == NextEntry(LogError(m, "flushing error"))

\* putEventLogs threw: its catch block wraps the error, and _flush catches it
\* in the inner catch block (first attempt) or in the outer one (a retry).
PutThrew(m, cause) ==
    LET error == Wrap(cause)
    IN  IF ~m.f.retry
        THEN LET m1 == LogError(m, "flushing error (will retry)")
             IN  IF Logs(m1) = <<>>
                 THEN NextEntry(m1)
                 ELSE RetryLoop([m1 EXCEPT !.f.retry = TRUE,
                                           !.f.half = Half(Len(Logs(m1))),
                                           !.f.error = error])
        ELSE RetryFailed(m)

\* result.$metadata.httpStatusCode !== 200
ResendOn200(status) == status = "200"
NeedsResend(status) == status # "200"

----------------------------------------------------------------------------
(* flush(), log() and the timer *)

NewFlush(entries, before, heap) ==
    [pc |-> "start", entries |-> entries, i |-> 0,
     retry |-> FALSE, half |-> 0, partial |-> <<>>, error |-> NoError,
     stale |-> FALSE,
     snap |-> [i \in DOMAIN entries |->
                 [key |-> entries[i].key,
                  raw |-> before[entries[i].ref],
                  logs |-> heap[entries[i].ref]]],
     calls |-> <<>>, resumed |-> 0]

\* flush(): getOrderedLogs, then _flush(entries) up to its first await.
\* s and the result are records [bl, arr, lg, fls].
Flush(s) ==
    LET o == GetOrderedLogs(s.bl, s.arr)
        m == NextEntry([f |-> NewFlush(o.entries, s.arr, o.arr),
                        lg |-> s.lg, arr |-> o.arr])
    IN  [bl |-> o.bl, arr |-> m.arr, lg |-> m.lg, fls |-> Append(s.fls, m.f)]

Now == [bl |-> bufferedLogs, arr |-> arr, lg |-> logGroups, fls |-> flushes]

Become(s) ==
    /\ bufferedLogs' = s.bl
    /\ arr' = s.arr
    /\ logGroups' = s.lg
    /\ flushes' = s.fls

\* What log() does with the event once the limit check is over (lines 316-348):
\* whether it is pushed, as which record, and what log() returns.
OversizedFallThrough(policy, log) ==
    IF logEventExceedsSize(log) /\ policy = "clip"
    THEN [push |-> TRUE, log |-> [log EXCEPT !.message = ClipMessage(@)],
          ret |-> "undefined"]
    ELSE [push |-> TRUE, log |-> log, ret |-> "undefined"]
OversizedOutcome(policy, log) ==
    IF ~logEventExceedsSize(log)
    THEN [push |-> TRUE, log |-> log, ret |-> "undefined"]
    ELSE CASE policy = "clip" ->
                [push |-> TRUE, log |-> [log EXCEPT !.message = ClipMessage(@)],
                 ret |-> "undefined"]
           [] policy = "error" -> [push |-> FALSE, log |-> log, ret |-> "Error"]
           [] policy = "console" -> [push |-> FALSE, log |-> log, ret |-> "undefined"]

\* this.pushLog(logGroupName, logStreamName, log_), when log() gets that far.
Pushed(s, key, out) ==
    LET pushed == PushLog(s.bl, s.arr, key, out.log)
    IN  IF out.push THEN [s EXCEPT !.bl = pushed.bl, !.arr = pushed.arr] ELSE s

\* The order of log(): this.flush() when the limit is reached (lines 312-314), and
\* the push after it (line 346).
PushThenFlush(s, limit, key, out) ==
    IF limit THEN Flush(Pushed(s, key, out)) ELSE Pushed(s, key, out)
FlushThenPush(s, limit, key, out) ==
    Pushed(IF limit THEN Flush(s) ELSE s, key, out)

\* log(logGroupName, logStreamName, log)
LogCall(key, ts, msg) ==
    LET log == [id |-> Len(logged) + 1, timestamp |-> ts, message |-> msg]
        limit == reachedBufferLimits(bufferedLogs, arr, key, log)
        out == OversizedOutcome(overSizedMessageAction, log)
        s2 == FlushThenPush(Now, limit, key, out)
    IN  /\ limit => Len(flushes) < MaxFlushes
        /\ Become(s2)
        /\ logged' = Append(logged, [key |-> key, log |-> log, ret |-> out.ret,
                                     pushed |-> out.push, limit |-> limit])
        /\ UNCHANGED <<config, unhandledRejection, mod>>

Log ==
    /\ Len(logged) < MaxLogs
    /\ \E key \in Dests, ts \in Timestamps, msg \in Messages : LogCall(key, ts, msg)

\* flush() called by the application.
ManualFlush ==
    /\ Len(flushes) < MaxFlushes
    /\ Become(Flush(Now))
    /\ UNCHANGED <<config, logged, unhandledRejection, mod>>

\* Some buffer of the Map has logs.
HasLogs(s) == \E i \in DOMAIN s.bl : s.arr[s.bl[i].ref] # <<>>

\* intervalCallback: calls flush() when some buffer has logs, and else does nothing.
IntervalCallbackAlways(s) == Flush(s)
intervalCallback(s) == IF HasLogs(s) THEN Flush(s) ELSE s

\* The timer fires.
Tick ==
    /\ flushIntervalInterval.armed
    /\ HasLogs(Now) => Len(flushes) < MaxFlushes
    /\ Become(intervalCallback(Now))
    /\ UNCHANGED <<config, logged, unhandledRejection, mod>>

----------------------------------------------------------------------------
(* The answers of the remote sink resume the coroutine that awaits them *)

M(i) == [f |-> flushes[i], lg |-> logGroups, arr |-> arr]
Answered(m, r) == [m EXCEPT !.f.calls[Len(m.f.calls)].res = r]

Diags(f) == {c \in DOMAIN f.calls : f.calls[c].dest = DiagDest}

\* The coroutine i ran from m0's state to m's.  A diagnostic send it issued is
\* not awaited: when the sink rejects it, nothing handles the rejection.
Resumed(i, m, others) ==
    /\ flushes' = [j \in DOMAIN flushes |->
                        IF j = i THEN [m.f EXCEPT !.resumed = @ + 1] ELSE others[j]]
    /\ logGroups' = m.lg
    /\ arr' = m.arr
    /\ \E rejected \in (IF Diags(m.f) # Diags(flushes[i]) THEN BOOLEAN ELSE {FALSE}) :
            unhandledRejection' = (unhandledRejection \/ rejected)
    /\ UNCHANGED <<config, bufferedLogs, logged, mod>>

\* this.logGroups.set(logGroupName, [])
SetGroup(lg, g) == [x \in DOMAIN lg \cup {g} |-> IF x = g THEN <<>> ELSE lg[x]]

\* The coroutines that hold the array the registry had for group g.
Outdated(i, g) ==
    [j \in DOMAIN flushes |->
        IF j # i /\ flushes[j].pc = "cs" /\ flushes[j].entries[flushes[j].i].key[1] = g
        THEN [flushes[j] EXCEPT !.stale = TRUE]
        ELSE flushes[j]]

\* What createLogGroup throws for the answer r of the sink (lines 380-396).
CreateLogGroupRethrows(r) ==
    IF r = "ok" \/ isResourceAlreadyExistsException(RemoteError(r))
    THEN NoError
    ELSE RemoteError(r)
CreateLogGroupThrows(r) ==
    IF r = "ok" \/ isResourceAlreadyExistsException(RemoteError(r))
    THEN NoError
    ELSE Wrap(RemoteError(r))

\* What createLogStream throws for an error caught in its catch block (420-428).
CreateLogStreamThrows(error) ==
    IF isResourceAlreadyExistsException(error) THEN NoError ELSE Wrap(error)

RespCreateLogGroup(i, r) ==
    /\ flushes[i].pc = "cg"
    /\ LET m0 == Answered(M(i), r)
           thrown == CreateLogGroupThrows(r)
       IN  IF thrown = NoError
           THEN Resumed(i, AfterCreateLogGroup([m0 EXCEPT !.lg = SetGroup(@, CurGroup(m0))]),
                        Outdated(i, CurGroup(m0)))
           ELSE Resumed(i, PutThrew(m0, CreateLogStreamThrows(thrown)), flushes)

RespCreateLogStream(i, r) ==
    /\ flushes[i].pc = "cs"
    /\ LET m0 == Answered(M(i), r)
           g == CurGroup(m0)
           pushed == [m0 EXCEPT !.lg[g] = Append(@, CurStream(m0))]
       IN  IF r = "ok"
           THEN Resumed(i, SendPutLogEvents(IF m0.f.stale THEN m0 ELSE pushed), flushes)
           ELSE IF CreateLogStreamThrows(RemoteError(r)) = NoError
                THEN Resumed(i, SendPutLogEvents(pushed), flushes)
                ELSE Resumed(i, PutThrew(m0, CreateLogStreamThrows(RemoteError(r))), flushes)

RespPutLogEvents(i, r) ==
    /\ flushes[i].pc = "put"
    /\ LET m0 == Answered(M(i), r)
       IN  IF r \in PutFailures
           THEN Resumed(i, PutThrew(m0, RemoteError(r)), flushes)
           ELSE IF NeedsResend(r)
                THEN Resumed(i, Send(m0, "PutLogEvents", LogEvents(m0), "put2"), flushes)
                ELSE Resumed(i, PutReturned(m0), flushes)

RespPutLogEventsAgain(i, r) ==
    /\ flushes[i].pc = "put2"
    /\ LET m0 == Answered(M(i), r)
       IN  IF r \in PutFailures
           THEN Resumed(i, PutThrew(m0, RemoteError(r)), flushes)
           ELSE Resumed(i, PutReturned(m0), flushes)

\* `await this.putEventLogs(...)` of a call that returned without a remote call.
Resume(i) ==
    /\ flushes[i].pc = "ret"
    /\ Resumed(i, PutReturned(M(i)), flushes)

CreateLogGroupAnswer(results) ==
    \E i \in DOMAIN flushes, r \in results : RespCreateLogGroup(i, r)
CreateLogStreamAnswer(results) ==
    \E i \in DOMAIN flushes, r \in results : RespCreateLogStream(i, r)
PutLogEventsAnswer(results) ==
    \E i \in DOMAIN flushes, r \in results : RespPutLogEvents(i, r)
PutLogEventsAgainAnswer(results) ==
    \E i \in DOMAIN flushes, r \in results : RespPutLogEventsAgain(i, r)
Resumption == \E i \in DOMAIN flushes : Resume(i)

----------------------------------------------------------------------------
(* The module-level logger (src/unnamed/part_003): setup(), addLog(),      *)
(* flush() and the throttled remote functions, on the record mod.          *)
(*   client: the CloudWatchLogsClient, or undefined (set = FALSE).         *)
(*   value, interval: #value and #interval of flushInterval.               *)
(*   timers, handle: the timers setInterval has created, each with its     *)
(*         delay and whether it is still active, and the one #interval     *)
(*         refers to (0: undefined).                                       *)
(*   clipMessages, logGroups, bufferedLogs: the module's variables; a      *)
(*         buffer is a record [key, logs], in the Map's insertion order.   *)
(*   immediates: the calls queued by setImmediate, oldest first.           *)
(*   regs: the createLogStream calls made by the constructor of Logger.    *)
(*   throttle: the start time pThrottle gave to its latest call.           *)
(*   flushes: the running _flush calls.  now: the clock.                   *)
(*   sent, added, setups: history: the remote calls with the time they     *)
(*         were started, the addLog calls, the number of setup() calls.    *)

MaxSetups == 2
MaxAdds == 2
MaxModuleFlushes == 2
MaxTime == 4000
MaxTimers == 3
MaxHandles == 2

\* The flush intervals the application sets.
Intervals == {0, 500, 1000}

FIXED_EVENT_PREFIX == 26
MAX_EVENT_SIZE == 2^18 - FIXED_EVENT_PREFIX
MAX_BUFFER_LENGTH == 10000
MAX_BUFFER_SIZE == 2^20

\* pThrottle({interval: 1500, limit: 1})
ThrottleInterval == 1500

\* The granularity of the clock.
TimeStep == ThrottleInterval \div 3

\* setInterval(callback, delay): the timer; a delay below 1 is taken as 1.
SetInterval(delay) == [armed |-> TRUE, delay |-> IF delay < 1 THEN 1 ELSE delay]
NoTimer == [armed |-> FALSE, delay |-> 0]

NoClient == [set |-> FALSE, region |-> ""]

\* The module's variables after the module was loaded.
ModuleLoaded ==
    [client |-> NoClient, value |-> 1000, interval |-> NoTimer,
     timers |-> <<>>, handle |-> 0, regs |-> <<>>,
     clipMessages |-> TRUE, logGroups |-> <<>>, bufferedLogs |-> <<>>,
     immediates |-> <<>>, throttle |-> 0 - 2 * ThrottleInterval, flushes |-> <<>>,
     now |-> 0, sent |-> <<>>, added |-> <<>>, setups |-> 0]

\* The configurations passed to setup(): flushInterval may be missing.
Configs ==
    {[region |-> "me-south-1", given |-> TRUE, flushInterval |-> 500],
     [region |-> "eu-west-1", given |-> FALSE, flushInterval |-> 0]}

\* The setter of flushInterval.value: clearInterval(#interval) when there is one,
\* then setInterval, whose timer #interval refers to from then on.
StartTimer(m, timers, value) ==
    [m EXCEPT !.timers = Append(timers, [delay |-> SetInterval(value).delay,
                                         active |-> TRUE]),
              !.handle = Len(timers) + 1,
              !.interval = SetInterval(value),
              !.value = value]
SetValueLeaks(m, value) == StartTimer(m, m.timers, value)
SetValue(m, value) ==
    StartTimer(m,
               IF m.interval.armed
               THEN [m.timers EXCEPT ![m.handle].active = FALSE]
               ELSE m.timers,
               value)

\* setup(config): does nothing when the client exists; else creates the client and
\* sets flushInterval.value, whose setter arms the timer.
CreateClient(m, cfg) ==
    [SetValue(m, IF cfg.given THEN cfg.flushInterval ELSE 1000)
        EXCEPT !.client = [set |-> TRUE, region |-> cfg.region]]
SetupUnguarded(m, cfg) == CreateClient(m, cfg)
setup(m, cfg) == IF m.client.set THEN m ELSE CreateClient(m, cfg)

\* pushLog of the module.
ModulePushLog(m, key, log) ==
    IF \E k \in DOMAIN m.bufferedLogs : m.bufferedLogs[k].key = key
    THEN LET k == CHOOSE k \in DOMAIN m.bufferedLogs : m.bufferedLogs[k].key = key
         IN  [m EXCEPT !.bufferedLogs[k].logs = Append(@, log)]
    ELSE [m EXCEPT !.bufferedLogs = Append(@, [key |-> key, logs |-> <<log>>])]

RECURSIVE ModuleBufferSize(_)
ModuleBufferSize(logs) ==
    IF logs = <<>> THEN 0
    ELSE ByteLength(Head(logs).message) + ModuleBufferSize(Tail(logs))

\* reachedBufferLimits of the module: sizes without the per-event prefix.
ModuleReachedBufferLimits(m, key, newLog) ==
    IF ~\E k \in DOMAIN m.bufferedLogs : m.bufferedLogs[k].key = key THEN FALSE
    ELSE LET logs ==
                 m.bufferedLogs[CHOOSE k \in DOMAIN m.bufferedLogs :
                                    m.bufferedLogs[k].key = key].logs
         IN  IF Len(logs) + 1 >= MAX_BUFFER_LENGTH THEN TRUE
             ELSE ModuleBufferSize(logs) + ByteLength(newLog.message) >= MAX_BUFFER_SIZE

\* logEventExceedsSize of the module.
ModuleLogEventExceedsSize(log) == ByteLength(log.message) >= MAX_EVENT_SIZE

\* pThrottle, limit 1: a call made now starts at once when the latest start is more
\* than an interval ago, and else one interval after the latest start.
ThrottleStart(m) ==
    IF m.now - m.throttle > ThrottleInterval THEN m.now ELSE m.throttle + ThrottleInterval

\* _flush k calls a throttled function and awaits it at pc.
Schedule(m, k, pc) ==
    [m EXCEPT !.throttle = ThrottleStart(m),
              !.flushes[k].pc = pc,
              !.flushes[k].start = ThrottleStart(m)]

\* client.send(command) by _flush k, awaited at pc.
SendRemote(m, k, op, pc) ==
    LET e == m.flushes[k].entries[m.flushes[k].i]
    IN  [m EXCEPT !.flushes[k].pc = pc,
                  !.sent = Append(@, [op |-> op, dest |-> e.key, batch |-> e.logs,
                                      at |-> m.now, res |-> "pending", by |-> k])]

\* _flush k returns; the addErrorLog that awaits it returns too, and its _flush.
RECURSIVE Finish(_, _)
Finish(m, k) ==
    LET m1 == [m EXCEPT !.flushes[k].pc = "done"]
        parents == {j \in DOMAIN m.flushes :
                        m.flushes[j].pc = "wait" /\ m.flushes[j].child = k}
    IN  IF parents = {} THEN m1 ELSE Finish(m1, CHOOSE j \in parents : TRUE)

\* The for loop of _flush k calls putEventLogs for its next entry, or ends.
ModuleNextEntry(m, k) ==
    IF m.flushes[k].i >= Len(m.flushes[k].entries)
    THEN Finish(m, k)
    ELSE Schedule([m EXCEPT !.flushes[k].i = @ + 1], k, "tput")

\* getOrderedLogs and flush() of the module: every buffer is replaced by an empty
\* one and its sorted logs go to a new _flush, which runs to its first await.
ModuleFlushCall(m) ==
    LET k == Len(m.flushes) + 1
        entries == [b \in DOMAIN m.bufferedLogs |->
                        [key |-> m.bufferedLogs[b].key,
                         logs |-> SortLogs(m.bufferedLogs[b].logs)]]
        cleared == [b \in DOMAIN m.bufferedLogs |->
                        [key |-> m.bufferedLogs[b].key, logs |-> <<>>]]
    IN  ModuleNextEntry(
            [m EXCEPT !.bufferedLogs = cleared,
                      !.flushes = Append(@, [pc |-> "start", entries |-> entries,
                                             i |-> 0, start |-> 0, child |-> 0])],
            k)

\* The record addErrorLog pushes: a JSON text, stamped Date.now(); it has no id of
\* an addLog call.
ErrorLog(m) == [id |-> 0, timestamp |-> m.now, message |-> <<Run(1, 64)>>]

\* The catch block of _flush k: addErrorLog pushes the error record, calls flush()
\* and awaits it.
ModuleCaught(m, k) ==
    LET m1 == ModulePushLog(m, DiagDest, ErrorLog(m))
        child == Len(m1.flushes) + 1
        m2 == ModuleFlushCall([m1 EXCEPT !.flushes[k].pc = "wait",
                                         !.flushes[k].child = child])
    IN  IF m2.flushes[child].pc = "done" THEN Finish(m2, child) ELSE m2

\* The throttled function _flush k awaits is started.
ModuleStarted(m, k) ==
    LET f == m.flushes[k]
        e == f.entries[f.i]
        known == /\ e.key[1] \in DOMAIN m.logGroups
                 /\ e.key[2] \in Range(m.logGroups[e.key[1]])
    IN  CASE f.pc = "tput" ->
                IF e.logs = <<>> THEN ModuleNextEntry(m, k)
                ELSE IF ~m.client.set THEN ModuleCaught(m, k)
                ELSE IF ~known THEN Schedule(m, k, "tcs")
                ELSE SendRemote(m, k, "PutLogEvents", "put")
          [] f.pc = "tcs" ->
                IF ~m.client.set THEN ModuleCaught(m, k)
                ELSE Schedule(m, k, "tcg")
          [] f.pc = "tcg" ->
                IF ~m.client.set THEN ModuleCaught(m, k)
                ELSE SendRemote(m, k, "CreateLogGroup", "cg")

\* logGroups after createLogStream's call succeeded (lines 214-219).
ModuleRecordStream(lg, g, s) ==
    IF g \in DOMAIN lg
    THEN [lg EXCEPT ![g] = Append(@, s)]
    ELSE [x \in DOMAIN lg \cup {g} |-> IF x = g THEN <<s>> ELSE lg[x]]

\* The remote call c is answered with r, and the _flush that awaits it goes on.
ModuleAnswered(m, c, r) ==
    LET k == m.sent[c].by
        e == m.flushes[k].entries[m.flushes[k].i]
        m1 == [m EXCEPT !.sent[c].res = r]
        fine == r \in {"ok", "200"} \/ isResourceAlreadyExistsException(RemoteError(r))
    IN  CASE m.sent[c].op = "CreateLogGroup" ->
                IF fine THEN SendRemote(m1, k, "CreateLogStream", "cs")
                ELSE ModuleCaught(m1, k)
          [] m.sent[c].op = "CreateLogStream" ->
                IF r = "ok"
                THEN SendRemote([m1 EXCEPT !.logGroups =
                                    ModuleRecordStream(@, e.key[1], e.key[2])],
                                k, "PutLogEvents", "put")
                ELSE IF fine THEN SendRemote(m1, k, "PutLogEvents", "put")
                ELSE ModuleCaught(m1, k)
          [] m.sent[c].op = "PutLogEvents" ->
                IF r \in PutFailures THEN ModuleCaught(m1, k)
                ELSE ModuleNextEntry(m1, k)

\* addLog(logGroupName, logStreamName, log): the limit check, the oversized
\* message, and setImmediate(pushLog, ...).
addLog(m, key, ts, msg) ==
    LET log == [id |-> Len(m.added) + 1, timestamp |-> ts, message |-> msg]
        limit == ModuleReachedBufferLimits(m, key, log)
        m1 == IF limit THEN ModuleFlushCall(m) ELSE m
        rejected == ModuleLogEventExceedsSize(log) /\ ~m.clipMessages
        log_ == IF ModuleLogEventExceedsSize(log)
                THEN [log EXCEPT !.message = SubarrayToString(@, MAX_EVENT_SIZE)]
                ELSE log
        m2 == IF rejected THEN m1
              ELSE [m1 EXCEPT !.immediates = Append(@, [key |-> key, log |-> log_])]
    IN  [m2 EXCEPT !.added = Append(@, [key |-> key, log |-> log,
                                        ret |-> IF rejected THEN "Error" ELSE "undefined",
                                        flushes |-> Len(m1.flushes)])]

\* bufferedLogs.set(key, []): a Map keeps the place of a key it has and replaces
\* its value; a new key goes last.
ResetBuffer(m, key) ==
    IF \E k \in DOMAIN m.bufferedLogs : m.bufferedLogs[k].key = key
    THEN LET k == CHOOSE k \in DOMAIN m.bufferedLogs : m.bufferedLogs[k].key = key
         IN  [m EXCEPT !.bufferedLogs[k].logs = <<>>]
    ELSE [m EXCEPT !.bufferedLogs = Append(@, [key |-> key, logs |-> <<>>])]

\* new Logger(streamGroup, streamName): the buffer is set, and createLogStream is
\* called and not awaited: pThrottle gives the call its start time.
NewLoggerCall(m, key) ==
    [ResetBuffer(m, key)
        EXCEPT !.throttle = ThrottleStart(m),
               !.regs = Append(@, [key |-> key, pc |-> "tcs",
                                   start |-> ThrottleStart(m), call |-> 0])]

\* client.send(command) by the createLogStream call r, awaited at pc.
RegSend(m, r, op, pc) ==
    [m EXCEPT !.regs[r].pc = pc,
              !.regs[r].call = Len(m.sent) + 1,
              !.sent = Append(@, [op |-> op, dest |-> m.regs[r].key, batch |-> <<>>,
                                  at |-> m.now, res |-> "pending", by |-> 0])]

\* The throttled function of the createLogStream call r is started: createLogStream
\* calls the throttled createLogGroup, which sends; without a client either throws,
\* and nothing handles the rejection.
RegStarted(m, r) ==
    IF ~m.client.set THEN [m EXCEPT !.regs[r].pc = "rejected"]
    ELSE IF m.regs[r].pc = "tcs"
    THEN [m EXCEPT !.throttle = ThrottleStart(m),
                   !.regs[r].pc = "tcg",
                   !.regs[r].start = ThrottleStart(m)]
    ELSE RegSend(m, r, "CreateLogGroup", "cg")

\* The remote call of the createLogStream call r is answered with res.
RegAnswered(m, r, res) ==
    LET key == m.regs[r].key
        m1 == [m EXCEPT !.sent[m.regs[r].call].res = res]
        fine == res = "ok" \/ isResourceAlreadyExistsException(RemoteError(res))
    IN  IF m.regs[r].pc = "cg"
        THEN IF fine THEN RegSend(m1, r, "CreateLogStream", "cs")
             ELSE [m1 EXCEPT !.regs[r].pc = "rejected"]
        ELSE IF res = "ok"
             THEN [m1 EXCEPT !.logGroups = ModuleRecordStream(@, key[1], key[2]),
                             !.regs[r].pc = "done"]
             ELSE IF fine THEN [m1 EXCEPT !.regs[r].pc = "done"]
             ELSE [m1 EXCEPT !.regs[r].pc = "rejected"]

\* The logger object of src/pg/index.ts, which the module-level functions leave alone.
logger == <<config, bufferedLogs, arr, logGroups, flushes, logged, unhandledRejection>>

ModuleBecomes(m) ==
    /\ Len(m.flushes) <= MaxModuleFlushes
    /\ mod' = m
    /\ UNCHANGED logger

Setup ==
    /\ mod.setups < MaxSetups
    /\ \E cfg \in Configs : ModuleBecomes([setup(mod, cfg) EXCEPT !.setups = @ + 1])

AddLog ==
    /\ Len(mod.added) < MaxAdds
    /\ \E ts \in Timestamps : ModuleBecomes(addLog(mod, <<"g", "s1">>, ts, SmallMsg))

\* The oldest call queued by setImmediate runs: pushLog(key, log).
RunImmediate ==
    /\ mod.immediates # <<>>
    /\ ModuleBecomes(ModulePushLog([mod EXCEPT !.immediates = Tail(@)],
                                   Head(mod.immediates).key, Head(mod.immediates).log))

\* flush() called by the application.
ModuleFlush ==
    /\ Len(mod.flushes) < MaxModuleFlushes
    /\ ModuleBecomes(ModuleFlushCall(mod))

\* The timer fires: #intervalCallback calls flush() when some buffer has logs.
ModuleTick ==
    /\ \E t \in DOMAIN mod.timers : mod.timers[t].active
    /\ \E b \in DOMAIN mod.bufferedLogs : mod.bufferedLogs[b].logs # <<>>
    /\ Len(mod.flushes) < MaxModuleFlushes
    /\ ModuleBecomes(ModuleFlushCall(mod))

\* The time pThrottle gave to a call has come: the function is started.
ThrottleStarts ==
    \E k \in DOMAIN mod.flushes :
        /\ mod.flushes[k].pc \in {"tput", "tcs", "tcg"}
        /\ mod.now >= mod.flushes[k].start
        /\ ModuleBecomes(ModuleStarted(mod, k))

\* The sink answers a remote call, some time after it was started.
ModuleAnswer(creates, puts) ==
    \E c \in DOMAIN mod.sent :
        /\ mod.sent[c].res = "pending"
        /\ mod.sent[c].by > 0
        /\ mod.now > mod.sent[c].at
        /\ \E r \in (IF mod.sent[c].op = "PutLogEvents" THEN puts ELSE creates) :
                ModuleBecomes(ModuleAnswered(mod, c, r))

\* flushInterval.value = value, set by the application.
Reconfigure ==
    /\ Len(mod.timers) < MaxTimers
    /\ \E value \in Intervals : ModuleBecomes(SetValue(mod, value))

\* new Logger(streamGroup, streamName), called by the application.
NewLogger ==
    /\ Len(mod.regs) < MaxHandles
    /\ \E key \in {<<"g", "s1">>, <<"g", "s2">>} : ModuleBecomes(NewLoggerCall(mod, key))

\* The time pThrottle gave to a createLogStream call of a constructor has come.
RegistrationStarts ==
    \E r \in DOMAIN mod.regs :
        /\ mod.regs[r].pc \in {"tcs", "tcg"}
        /\ mod.now >= mod.regs[r].start
        /\ ModuleBecomes(RegStarted(mod, r))

\* The sink answers the remote call of a createLogStream call of a constructor.
RegistrationAnswer(creates) ==
    \E r \in DOMAIN mod.regs :
        /\ mod.regs[r].pc \in {"cg", "cs"}
        /\ mod.now > mod.sent[mod.regs[r].call].at
        /\ \E res \in creates : ModuleBecomes(RegAnswered(mod, r, res))

\* Time passes.
Advance ==
    /\ mod.now < MaxTime
    /\ ModuleBecomes([mod EXCEPT !.now = @ + TimeStep])

----------------------------------------------------------------------------
(* The specification *)

\* The setter of flushInterval, called by the constructor: it stores the value and
\* arms the timer, whatever the value.
SetFlushInterval(value) ==
    /\ flushInterval = value
    /\ flushIntervalInterval = SetInterval(value)

\* new CloudWatchLogger(config), config.flushInterval in intervals.
Constructed(intervals) ==
    /\ overSizedMessageAction \in Policies
    /\ \E value \in intervals : SetFlushInterval(value)
    /\ bufferedLogs = <<>>
    /\ arr = <<>>
    /\ logGroups = <<>>
    /\ flushes = <<>>
    /\ logged = <<>>
    /\ unhandledRejection = FALSE
    /\ mod = ModuleLoaded

\* The flush interval of the demo script, and the ones of the timer's checks.
DemoIntervals == {1000}
TimerIntervals == {0, 1000}

Init == Constructed(DemoIntervals)

Next ==
    \/ Log
    \/ ManualFlush
    \/ Tick
    \/ CreateLogGroupAnswer(CreateOkOrDown)
    \/ CreateLogStreamAnswer(CreateOkOrDown)
    \/ PutLogEventsAnswer(PutOkOrDown)
    \/ Resumption

Spec == Init /\ [][Next]_vars

----------------------------------------------------------------------------
(* SpecOrder: one destination, three timestamps, a sink that accepts every *)
(* call; the inputs of the ordering of a batch.                            *)

MaxOrderedLogs == 3
OrderTimestamps == {100, 200, 300}

LogOrdered ==
    /\ Len(logged) < MaxOrderedLogs
    /\ \E ts \in OrderTimestamps : LogCall(<<"g", "s1">>, ts, SmallMsg)

NextOrder ==
    \/ LogOrdered
    \/ ManualFlush
    \/ Tick
    \/ CreateLogGroupAnswer({"ok"})
    \/ CreateLogStreamAnswer({"ok"})
    \/ PutLogEventsAnswer({"200"})
    \/ Resumption

SpecOrder == Init /\ [][NextOrder]_vars

----------------------------------------------------------------------------
(* SpecClip: log() given oversized texts of one-, two-, three- and         *)
(* four-byte characters, and a sink that accepts every call.               *)

Oversized(w) == <<Run(w, 300000 \div w)>>
ClipMessages ==
    {SmallMsg, Oversized(1), Oversized(2), Oversized(3), Oversized(4),
     <<Run(1, 1), Run(2, 150000)>>}

LogText ==
    /\ Len(logged) < MaxLogs
    /\ \E msg \in ClipMessages : LogCall(<<"g", "s1">>, 100, msg)

NextClip ==
    \/ LogText
    \/ ManualFlush
    \/ Tick
    \/ CreateLogGroupAnswer({"ok"})
    \/ CreateLogStreamAnswer({"ok"})
    \/ PutLogEventsAnswer({"200"})
    \/ Resumption

SpecClip == Init /\ [][NextClip]_vars

----------------------------------------------------------------------------
(* SpecAllFail: one destination with batches of up to MaxBatchLogs events, *)
(* and a sink whose every put-batch call ends in an error.                 *)

MaxBatchLogs == 3

LogToOne ==
    /\ Len(logged) < MaxBatchLogs
    /\ LogCall(<<"g", "s1">>, 100, SmallMsg)

NextAllFail ==
    \/ LogToOne
    \/ ManualFlush
    \/ Tick
    \/ CreateLogGroupAnswer(CreateOkOrDown)
    \/ CreateLogStreamAnswer(CreateOkOrDown)
    \/ PutLogEventsAnswer(PutFailures)
    \/ Resumption

SpecAllFail == Init /\ [][NextAllFail]_vars

----------------------------------------------------------------------------
(* What the claims read of a flush *)

\* The put-batch calls of a flush made for the application's destinations.
PutCalls(f) ==
    {c \in DOMAIN f.calls : f.calls[c].op = "PutLogEvents" /\ f.calls[c].dest # DiagDest}

\* The events of all put-batch calls of a flush, in the order sent.
RECURSIVE SentUpTo(_, _)
SentUpTo(f, n) ==
    IF n = 0 THEN <<>>
    ELSE SentUpTo(f, n - 1) \o (IF n \in PutCalls(f) THEN f.calls[n].batch ELSE <<>>)
Sent(f) == SentUpTo(f, Len(f.calls))

\* The events that were in the buffers when the flush took them.
Drained(f) == Flatten([j \in DOMAIN f.snap |-> f.snap[j].raw])

\* Every remote call of the flush succeeded.
Clean(f) == \A c \in DOMAIN f.calls : f.calls[c].res \in {"ok", "200"}

\* The flush is suspended at a remote call.
InFlight(f) == f.pc \in {"cg", "cs", "put", "put2"}

\* The events in the buffers.
Buffered == UNION {Ids(arr[bufferedLogs[k].ref]) : k \in DOMAIN bufferedLogs}

EventIds == 1..Len(logged)

----------------------------------------------------------------------------
\* C1: a flush all of whose remote calls succeeded has passed to put-batch exactly
\* the events that were in the buffers when it drained them: every one of them
\* once, and no other event.
C1_NoLossNoDuplication ==
    \A i \in DOMAIN flushes :
        (flushes[i].pc = "done" /\ Clean(flushes[i])) =>
            \A id \in EventIds :
                Count(Sent(flushes[i]), id) = Count(Drained(flushes[i]), id)

C1_Witness ==
    \E i \in DOMAIN flushes :
        /\ flushes[i].pc = "done"
        /\ Clean(flushes[i])
        /\ Len(flushes[i].snap) = 2
        /\ \A j \in DOMAIN flushes[i].snap : flushes[i].snap[j].raw # <<>>

----------------------------------------------------------------------------
PosIn(logs, id) == CHOOSE k \in DOMAIN logs : logs[k].id = id

\* batch holds the records of raw, ascending by timestamp, records of equal
\* timestamp in the order they have in raw.
IsStableSortOf(batch, raw) ==
    /\ Len(batch) = Len(raw)
    /\ Range(batch) = Range(raw)
    /\ \A a, b \in DOMAIN batch :
          a < b =>
            \/ batch[a].timestamp < batch[b].timestamp
            \/ /\ batch[a].timestamp = batch[b].timestamp
               /\ PosIn(raw, batch[a].id) < PosIn(raw, batch[b].id)

\* C2: the batch a flush sends for a destination is a permutation of the events
\* that destination's buffer held, ascending by timestamp, and events of equal
\* timestamp keep the order in which log() accepted them.
C2_BatchStablySorted ==
    \A i \in DOMAIN flushes :
        \A c \in PutCalls(flushes[i]) :
            \E j \in DOMAIN flushes[i].snap :
                /\ flushes[i].snap[j].key = flushes[i].calls[c].dest
                /\ IsStableSortOf(flushes[i].calls[c].batch, flushes[i].snap[j].raw)

\* A batch of three was sent whose buffer was out of order and had a tie.
C2_Witness ==
    \E i \in DOMAIN flushes :
        \E c \in PutCalls(flushes[i]) :
            LET raw == flushes[i].snap[1].raw
            IN  /\ flushes[i].calls[c].res = "200"
                /\ Len(raw) = 3
                /\ raw[1].timestamp > raw[2].timestamp
                /\ raw[2].timestamp = raw[3].timestamp

----------------------------------------------------------------------------
\* C3: while a flush is suspended at a remote call, log() leaves the batches that
\* flush captured as they are and puts the event it accepts into its destination's
\* buffer; and no step loses a buffered event: it stays buffered or it is in the
\* snapshot of the flush that step started.
C3_Step ==
    /\ Len(logged') > Len(logged) =>
          LET call == logged'[Len(logged')]
          IN  /\ \A i \in DOMAIN flushes :
                    InFlight(flushes[i]) =>
                        \A j \in DOMAIN flushes[i].entries :
                            /\ arr'[flushes[i].entries[j].ref] = arr[flushes[i].entries[j].ref]
                            /\ call.log.id \notin Ids(arr'[flushes[i].entries[j].ref])
              /\ call.pushed =>
                    /\ HasKey(bufferedLogs', call.key)
                    /\ call.log.id \in Ids(arr'[RefOf(bufferedLogs', call.key)])
    /\ \A id \in Buffered :
          \/ id \in Buffered'
          \/ /\ Len(flushes') > Len(flushes)
             /\ id \in Ids(Drained(flushes'[Len(flushes')]))

C3_LatePushKept == [][C3_Step]_vars

\* A flush is still suspended, and a later flush has captured events: they were
\* pushed after the first one drained the buffers.
C3_Witness ==
    \E i, k \in DOMAIN flushes :
        /\ i < k
        /\ InFlight(flushes[i])
        /\ Drained(flushes[i]) # <<>>
        /\ Drained(flushes[k]) # <<>>

----------------------------------------------------------------------------
Snapshots(id) == {i \in DOMAIN flushes : id \in Ids(Drained(flushes[i]))}
Senders(id) == {i \in DOMAIN flushes : id \in Ids(Sent(flushes[i]))}

\* C4: however the flushes overlap, an event that was pushed is in a buffer or in
\* the snapshot of exactly one flush, and only that flush puts it to the sink.
C4_OneSnapshotPerEvent ==
    \A id \in EventIds :
        /\ Cardinality(Snapshots(id)) <= 1
        /\ Senders(id) \subseteq Snapshots(id)
        /\ logged[id].pushed => ((id \in Buffered) <=> (Snapshots(id) = {}))
        /\ ~logged[id].pushed => (id \notin Buffered /\ Snapshots(id) = {})

\* Two flushes with events are suspended at the same time.
C4_Witness ==
    \E i, k \in DOMAIN flushes :
        /\ i # k
        /\ InFlight(flushes[i]) /\ InFlight(flushes[k])
        /\ Drained(flushes[i]) # <<>>
        /\ Drained(flushes[k]) # <<>>

----------------------------------------------------------------------------
CallsFor(f, key) == {c \in DOMAIN f.calls : f.calls[c].dest = key}
ProvisioningFailed(f, key) ==
    \E c \in CallsFor(f, key) :
        /\ f.calls[c].op \in {"CreateLogGroup", "CreateLogStream"}
        /\ f.calls[c].res \notin {"ok", "pending"}

----------------------------------------------------------------------------
Ended(i) == i \in DOMAIN flushes /\ flushes[i].pc = "done"

\* The coroutine awaits something that NextAllFail delivers: the answer to a
\* create or put-batch call, or its resumption (the guards of those actions).
Resumable(f) == f.pc \in {"cg", "cs", "put", "ret"}

PutCallsTo(f, key) == {c \in PutCalls(f) : f.calls[c].dest = key}

\* C6: when every delivery attempt fails, the flush ends after finitely many
\* put-batch attempts, whatever the size of the batch: a flush that has not ended
\* can always be resumed, it is resumed at most five times per destination (the
\* awaits of the first attempt and of the one retry), and it makes at most two
\* put-batch attempts per destination.
C6_RetryTerminates ==
    \A i \in DOMAIN flushes :
        /\ Ended(i) \/ Resumable(flushes[i])
        /\ flushes[i].resumed <= 5 * Len(flushes[i].entries)
        /\ \A j \in DOMAIN flushes[i].snap :
              Cardinality(PutCallsTo(flushes[i], flushes[i].snap[j].key)) <= 2

\* A flush of a batch of three has ended after its first attempt and its retry
\* both failed.
C6_Witness ==
    \E i \in DOMAIN flushes :
        /\ Ended(i)
        /\ Len(flushes[i].snap) = 1
        /\ Len(flushes[i].snap[1].raw) = 3
        /\ Cardinality(PutCalls(flushes[i])) >= 2
        /\ \A c \in PutCalls(flushes[i]) : flushes[i].calls[c].res \in PutFailures

----------------------------------------------------------------------------
TerminalReports(f, key) ==
    {c \in DOMAIN f.calls : f.calls[c].note = "flushing error" /\ f.calls[c].about = key}

\* C7: when every delivery attempt fails for a destination with two or more
\* events, every event has been attempted in a single-event batch by the time
\* the flush ends, and one terminal failure was reported per event.
C7_SplitToSingleEvents ==
    \A i \in DOMAIN flushes :
        flushes[i].pc = "done" =>
            \A j \in DOMAIN flushes[i].snap :
                LET raw == flushes[i].snap[j].raw
                    key == flushes[i].snap[j].key
                IN  Len(raw) >= 2 =>
                        /\ \A e \in Ids(raw) :
                              \E c \in PutCalls(flushes[i]) :
                                  /\ Len(flushes[i].calls[c].batch) = 1
                                  /\ flushes[i].calls[c].batch[1].id = e
                        /\ Cardinality(TerminalReports(flushes[i], key)) = Len(raw)

----------------------------------------------------------------------------
\* C8: under the clip policy an event whose message was longer than
\* CLOUDWATCH_MAX_EVENT_SIZE is buffered with a message of exactly
\* CLOUDWATCH_MAX_EVENT_SIZE bytes.
C8_ClippedToExactlyMax ==
    overSizedMessageAction = "clip" =>
        \A k \in DOMAIN bufferedLogs :
            \A n \in DOMAIN arr[bufferedLogs[k].ref] :
                LET e == arr[bufferedLogs[k].ref][n]
                IN  logEventExceedsSize(logged[e.id].log) =>
                        ByteLength(e.message) = CLOUDWATCH_MAX_EVENT_SIZE

----------------------------------------------------------------------------
\* The event is, or was, in a buffer, in a captured batch or in a put-batch call.
Seen(id) ==
    \/ id \in Buffered
    \/ Snapshots(id) # {}
    \/ Senders(id) # {}
    \/ \E r \in DOMAIN arr : id \in Ids(arr[r])

\* A put-batch call carried an event that log() accepted after event id.
PutAfter(id) ==
    \E i \in DOMAIN flushes :
        \E c \in PutCalls(flushes[i]) :
            \E n \in DOMAIN flushes[i].calls[c].batch :
                flushes[i].calls[c].batch[n].id > id

\* C9: under the error policy log() returns an Error for an oversized event, and
\* the event is never in a buffer, in a captured batch or in a put-batch call.
C9_ErrorPolicyRejects ==
    overSizedMessageAction = "error" =>
        \A id \in EventIds :
            logEventExceedsSize(logged[id].log) =>
                (logged[id].ret = "Error" /\ ~Seen(id))

C9_Witness ==
    /\ overSizedMessageAction = "error"
    /\ \E id \in EventIds :
          /\ logEventExceedsSize(logged[id].log)
          /\ logged[id].ret = "Error"
          /\ PutAfter(id)

----------------------------------------------------------------------------
\* C10: under the console policy log() returns undefined for an oversized event,
\* and the event is never in a buffer, in a captured batch or in a put-batch call.
C10_ConsolePolicyDrops ==
    overSizedMessageAction = "console" =>
        \A id \in EventIds :
            logEventExceedsSize(logged[id].log) =>
                (logged[id].ret = "undefined" /\ ~Seen(id))

C10_Witness ==
    /\ overSizedMessageAction = "console"
    /\ \E id \in EventIds :
          /\ logEventExceedsSize(logged[id].log)
          /\ logged[id].ret = "undefined"
          /\ PutAfter(id)

----------------------------------------------------------------------------
(* SpecLimit: log() given messages whose sizes add up to the byte ceiling  *)
(* of a buffer, under every policy, and a sink that accepts every call.    *)

MaxLimitLogs == 4

\* The longest message that is not oversized, one two bytes shorter, and an
\* oversized one: one ASCII character followed by two-byte characters.
FullMsg == <<Run(1, CLOUDWATCH_MAX_EVENT_SIZE)>>
NearMsg == <<Run(1, CLOUDWATCH_MAX_EVENT_SIZE - 2)>>
OddMsg == <<Run(1, 1), Run(2, CLOUDWATCH_MAX_EVENT_SIZE \div 2)>>
LimitMessages == {FullMsg, NearMsg, OddMsg}

LogNearLimit ==
    /\ Len(logged) < MaxLimitLogs
    /\ \E msg \in LimitMessages : LogCall(<<"g", "s1">>, 100, msg)

NextLimit ==
    \/ LogNearLimit
    \/ ManualFlush
    \/ Tick
    \/ CreateLogGroupAnswer({"ok"})
    \/ CreateLogStreamAnswer({"ok"})
    \/ PutLogEventsAnswer({"200"})
    \/ Resumption

SpecLimit == Init /\ [][NextLimit]_vars

----------------------------------------------------------------------------
\* C11: every destination buffer holds fewer than CLOUDWTACH_MAX_BUFFER_LENGTH
\* events and fewer than CLOUDWATCH_MAX_BUFFER_SIZE bytes, counted as message
\* bytes plus CLOUDWATCH_FIXED_EVENT_PREFIX per event.
C11_BuffersBelowCeilings ==
    \A k \in DOMAIN bufferedLogs :
        LET logs == arr[bufferedLogs[k].ref]
        IN  /\ Len(logs) < CLOUDWTACH_MAX_BUFFER_LENGTH
            /\ BufferSize(logs) < CLOUDWATCH_MAX_BUFFER_SIZE

----------------------------------------------------------------------------
(* SpecTimer: loggers constructed with flush interval 0 and 1000, one      *)
(* destination, and a sink that accepts every call.                        *)

InitTimer == Constructed(TimerIntervals)

LogSmall ==
    /\ Len(logged) < MaxLogs
    /\ \E ts \in Timestamps : LogCall(<<"g", "s1">>, ts, SmallMsg)

NextTimer ==
    \/ LogSmall
    \/ ManualFlush
    \/ Tick
    \/ CreateLogGroupAnswer({"ok"})
    \/ CreateLogStreamAnswer({"ok"})
    \/ PutLogEventsAnswer({"200"})
    \/ Resumption

SpecTimer == InitTimer /\ [][NextTimer]_vars

----------------------------------------------------------------------------
\* A step of the timer that starts a flush.
TickFlushes == Tick /\ Len(flushes') > Len(flushes)

\* C12: in a logger constructed with flush interval 0 no timer tick ever starts a
\* flush: such a step of the timer is not possible in any state.
C12_ZeroDisablesTimer == flushInterval = 0 => ~ENABLED TickFlushes

----------------------------------------------------------------------------
\* The remote calls a createLogStream(g, s) called in this state issues before it
\* returns: the calls up to the put-batch call that follows it in putEventLogs.
ProbeCreateLogStream(g, s) ==
    LET entry == [key |-> <<g, s>>, ref |-> 1]
        f == [NewFlush(<<entry>>, <<<<>>>>, <<<<>>>>) EXCEPT !.i = 1]
        m == CreateLogStream([f |-> f, lg |-> logGroups, arr |-> <<<<>>>>])
    IN  {m.f.calls[c].op : c \in DOMAIN m.f.calls} \ {"PutLogEvents"}

\* Some createLogStream(g, s) has completed successfully: its create-stream call
\* was answered without an error.
StreamCreated(g, s) ==
    \E i \in DOMAIN flushes :
        \E c \in DOMAIN flushes[i].calls :
            /\ flushes[i].calls[c].op = "CreateLogStream"
            /\ flushes[i].calls[c].dest = <<g, s>>
            /\ flushes[i].calls[c].res = "ok"

\* C13: once a createLogStream(g, s) has completed successfully, a createLogStream(g, s)
\* or createLogGroup(g) called in any later state issues no remote create call.
C13_NoCreateAfterSuccess ==
    \A key \in Dests :
        StreamCreated(key[1], key[2]) => ProbeCreateLogStream(key[1], key[2]) = {}

----------------------------------------------------------------------------
(* SpecExists: a sink whose create calls succeed, answer that the resource *)
(* already exists, or fail; its put-batch calls succeed.                   *)

NextExists ==
    \/ Log
    \/ ManualFlush
    \/ Tick
    \/ CreateLogGroupAnswer(CreateResults)
    \/ CreateLogStreamAnswer(CreateResults)
    \/ PutLogEventsAnswer({"200"})
    \/ Resumption

SpecExists == Init /\ [][NextExists]_vars

----------------------------------------------------------------------------
\* In this step the call that flush i awaits at pc is answered with r.
AnsweredNow(i, pc, r) ==
    /\ flushes[i].pc = pc
    /\ flushes'[i].calls[Len(flushes[i].calls)].res = r
    /\ flushes[i].calls[Len(flushes[i].calls)].res = "pending"

\* C14: when the create-group call is answered ResourceAlreadyExists, createLogGroup
\* returns without raising and the registry then has the group; when the
\* create-stream call is answered so, createLogStream returns without raising and
\* the registry then has the stream under its group. Without raising: no
\* diagnostic is issued and the flush goes on to its next remote call.
C14_Step ==
    \A i \in DOMAIN flushes :
        LET key == flushes[i].entries[flushes[i].i].key
        IN  /\ AnsweredNow(i, "cg", "ResourceAlreadyExistsException") =>
                  /\ key[1] \in DOMAIN logGroups'
                  /\ Diags(flushes'[i]) = Diags(flushes[i])
                  /\ flushes'[i].pc \in {"cs", "put"}
            /\ AnsweredNow(i, "cs", "ResourceAlreadyExistsException") =>
                  /\ key[1] \in DOMAIN logGroups'
                  /\ key[2] \in Range(logGroups'[key[1]])
                  /\ Diags(flushes'[i]) = Diags(flushes[i])
                  /\ flushes'[i].pc = "put"

C14_AlreadyExistsIsSuccess == [][C14_Step]_vars

\* A flush got ResourceAlreadyExists for its create-group and for its create-stream
\* call, and delivered its batch.
C14_Witness ==
    \E i \in DOMAIN flushes :
        /\ flushes[i].pc = "done"
        /\ Len(flushes[i].calls) = 3
        /\ flushes[i].calls[1].op = "CreateLogGroup"
        /\ flushes[i].calls[1].res = "ResourceAlreadyExistsException"
        /\ flushes[i].calls[2].op = "CreateLogStream"
        /\ flushes[i].calls[2].res = "ResourceAlreadyExistsException"
        /\ flushes[i].calls[3].res = "200"
        /\ flushes[i].calls[3].dest[2] \in Range(logGroups[flushes[i].calls[3].dest[1]])

----------------------------------------------------------------------------
(* SpecRace: up to MaxRaceCalls flushes for one destination running at the *)
(* same time, and a sink that answers a create call with success or with   *)
(* ResourceAlreadyExists.                                                  *)

MaxRaceCalls == 3

LogRace ==
    /\ Len(logged) < MaxRaceCalls
    /\ LogCall(<<"g", "s1">>, 100, SmallMsg)

\* flush() called by the application.
FlushRace ==
    /\ Len(flushes) < MaxRaceCalls
    /\ Become(Flush(Now))
    /\ UNCHANGED <<config, logged, unhandledRejection, mod>>

ExistsOrOk == {"ok", "ResourceAlreadyExistsException"}

NextRace ==
    \/ LogRace
    \/ FlushRace
    \/ CreateLogGroupAnswer(ExistsOrOk)
    \/ CreateLogStreamAnswer(ExistsOrOk)
    \/ PutLogEventsAnswer({"200"})
    \/ Resumption

SpecRace == Init /\ [][NextRace]_vars

----------------------------------------------------------------------------
\* The createLogStream calls for key that await their create-stream call.
CreatingStream(key) ==
    {i \in DOMAIN flushes :
        flushes[i].pc = "cs" /\ flushes[i].entries[flushes[i].i].key = key}

\* C15: of the createLogStream calls running at the same time for one (group,
\* stream), at most two have a remote create-stream call in flight, and none
\* raises an error when the sink answers that the resource already exists.
C15_AtMostOneDuplicate ==
    /\ \A key \in Dests : Cardinality(CreatingStream(key)) <= 2
    /\ \A i \in DOMAIN flushes : Diags(flushes[i]) = {}

----------------------------------------------------------------------------
(* SpecModule: the module-level logger with one destination, setup() called *)
(* up to MaxSetups times, and a sink that answers or is unavailable.        *)

InitModule == Init /\ overSizedMessageAction = "clip"

NextModule ==
    \/ Setup
    \/ AddLog
    \/ RunImmediate
    \/ ModuleFlush
    \/ ModuleTick
    \/ ThrottleStarts
    \/ ModuleAnswer(CreateOkOrDown, PutOkOrDown)
    \/ Advance

SpecModule == InitModule /\ [][NextModule]_vars

----------------------------------------------------------------------------
\* C16: a call of setup() after the first one changes nothing: the client, the
\* flush interval and the timer stay as the first call set them, and so does
\* every other variable of the module.
C16_Step ==
    (mod'.setups > mod.setups /\ mod.setups >= 1) =>
        /\ mod'.client = mod.client
        /\ mod'.value = mod.value
        /\ mod'.interval = mod.interval
        /\ mod' = [mod EXCEPT !.setups = @ + 1]

C16_SecondSetupIsNoOp == [][C16_Step]_vars

\* setup() was called twice, and the client and the interval are the ones of a
\* configuration with flushInterval 500.
C16_Witness ==
    /\ mod.setups = 2
    /\ mod.client = [set |-> TRUE, region |-> "me-south-1"]
    /\ mod.value = 500
    /\ mod.interval = SetInterval(500)

----------------------------------------------------------------------------
\* C17: no two remote calls are started within the same interval of the
\* throttle: any two of them start at least ThrottleInterval apart.
C17_RemoteCallsSpaced ==
    \A a, b \in DOMAIN mod.sent :
        a < b => mod.sent[b].at - mod.sent[a].at >= ThrottleInterval

----------------------------------------------------------------------------
\* C18: a flush() that found no buffer, or only empty buffers, issues no remote
\* call, and it completes: it only awaits putEventLogs calls that returned at
\* once, one per buffer, and is then done.
C18_EmptyFlushIsNoOp ==
    \A i \in DOMAIN flushes :
        Drained(flushes[i]) = <<>> =>
            /\ flushes[i].calls = <<>>
            /\ flushes[i].pc \in {"ret", "done"}
            /\ flushes[i].resumed <= Len(flushes[i].entries)
            /\ flushes[i].entries = <<>> => flushes[i].pc = "done"

\* A flush that found two empty buffers is done.
C18_Witness ==
    \E i \in DOMAIN flushes :
        /\ Len(flushes[i].entries) = 2
        /\ Drained(flushes[i]) = <<>>
        /\ flushes[i].pc = "done"
        /\ flushes[i].resumed = 2

----------------------------------------------------------------------------
\* C19: a flush all of whose remote calls succeeded has issued exactly one
\* put-batch call for every destination whose buffer had events, carrying all of
\* that buffer's events in timestamp order, and none for an empty buffer.
C19_OnePutWithWholeBatch ==
    \A i \in DOMAIN flushes :
        (flushes[i].pc = "done" /\ Clean(flushes[i])) =>
            \A j \in DOMAIN flushes[i].snap :
                LET raw == flushes[i].snap[j].raw
                    puts == PutCallsTo(flushes[i], flushes[i].snap[j].key)
                IN  IF raw = <<>>
                    THEN puts = {}
                    ELSE /\ Cardinality(puts) = 1
                         /\ \A c \in puts :
                               IsStableSortOf(flushes[i].calls[c].batch, raw)

\* Events logged with timestamps 300, 100, 200 were sent in one call as 100, 200,
\* 300.
C19_Witness ==
    \E i \in DOMAIN flushes :
        /\ flushes[i].pc = "done"
        /\ Clean(flushes[i])
        /\ Len(flushes[i].snap) = 1
        /\ Len(flushes[i].snap[1].raw) = 3
        /\ [n \in 1..3 |-> flushes[i].snap[1].raw[n].timestamp] = <<300, 100, 200>>
        /\ \E c \in PutCalls(flushes[i]) :
              /\ Len(flushes[i].calls[c].batch) = 3
              /\ [n \in 1..3 |-> flushes[i].calls[c].batch[n].timestamp]
                    = <<100, 200, 300>>

----------------------------------------------------------------------------
\* The ids of the events in the module's buffer for key, and in the entries of
\* its flush k.
ModuleBuffered(key) ==
    UNION {Ids(mod.bufferedLogs[b].logs) :
              b \in {x \in DOMAIN mod.bufferedLogs : mod.bufferedLogs[x].key = key}}
ModuleCaptured(k) ==
    UNION {Ids(mod.flushes[k].entries[e].logs) : e \in DOMAIN mod.flushes[k].entries}

\* C20: when addLog has returned without an error, its event is in the buffer of
\* its destination, or in the snapshot of the first flush() called after it.
C20_AddLogIsSynchronous ==
    \A n \in DOMAIN mod.added :
        mod.added[n].ret = "undefined" =>
            \/ n \in ModuleBuffered(mod.added[n].key)
            \/ /\ mod.added[n].flushes + 1 \in DOMAIN mod.flushes
               /\ n \in ModuleCaptured(mod.added[n].flushes + 1)

----------------------------------------------------------------------------
\* C21: while setup() has not been called, a flush() that needs the client fails
\* at once: it waits for the throttle to start its putEventLogs or it has ended,
\* and it has not started another flush.
C21_FailsBeforeSetup ==
    ~mod.client.set =>
        \A k \in DOMAIN mod.flushes :
            /\ mod.flushes[k].pc \in {"tput", "done"}
            /\ mod.flushes[k].child = 0

----------------------------------------------------------------------------
\* The reports "flushing error (will retry)" of a flush about a destination: one is
\* made when the first putEventLogs for it, the one with the full batch, has thrown.
RetryReports(f, key) ==
    {c \in DOMAIN f.calls :
        f.calls[c].note = "flushing error (will retry)" /\ f.calls[c].about = key}

\* Every create call of the flush succeeded: what failed were put-batch calls.
Provisioned(f) ==
    \A c \in DOMAIN f.calls :
        f.calls[c].op \in {"CreateLogGroup", "CreateLogStream"} => f.calls[c].res = "ok"

\* C22: when the delivery of the full batch of a destination failed, every event of
\* that batch is in a put-batch call made after the failure by the time the flush
\* ends; the provisioning calls of the flush all succeeded.
C22_BothHalvesAttempted ==
    \A i \in DOMAIN flushes :
        (flushes[i].pc = "done" /\ Provisioned(flushes[i])) =>
            \A j \in DOMAIN flushes[i].snap :
                LET f == flushes[i]
                    key == f.snap[j].key
                IN  \A r \in RetryReports(f, key) :
                        \A id \in Ids(f.snap[j].raw) :
                            \E c \in PutCallsTo(f, key) :
                                /\ c > r
                                /\ id \in Ids(f.calls[c].batch)

----------------------------------------------------------------------------
(* SpecInvalid: log() given oversized texts, and a sink that accepts a      *)
(* put-batch call or rejects it with InvalidParameterException.             *)

AcceptsOrInvalid == {"200", "InvalidParameterException"}

NextInvalid ==
    \/ LogText
    \/ ManualFlush
    \/ Tick
    \/ CreateLogGroupAnswer({"ok"})
    \/ CreateLogStreamAnswer({"ok"})
    \/ PutLogEventsAnswer(AcceptsOrInvalid)
    \/ Resumption

SpecInvalid == Init /\ [][NextInvalid]_vars

----------------------------------------------------------------------------
\* C23: when the delivery of a destination's batch failed because the put-batch
\* call was answered InvalidParameterException, every event of every put-batch
\* call made for that destination after the failure has a message of at most
\* CLOUDWATCH_MAX_EVENT_SIZE bytes.
C23_ClippedBeforeResend ==
    \A i \in DOMAIN flushes :
        \A j \in DOMAIN flushes[i].snap :
            LET f == flushes[i]
                key == f.snap[j].key
            IN  \A r \in RetryReports(f, key) :
                    f.calls[r - 1].res = "InvalidParameterException" =>
                        \A c \in PutCallsTo(f, key) :
                            c > r =>
                                \A n \in DOMAIN f.calls[c].batch :
                                    ByteLength(f.calls[c].batch[n].message)
                                        <= CLOUDWATCH_MAX_EVENT_SIZE

----------------------------------------------------------------------------
\* C24: when a put-batch call with a single event has failed, no later put-batch
\* call of any flush carries that event.
C24_SingleEventFailureTerminal ==
    \A i \in DOMAIN flushes :
        \A c \in PutCalls(flushes[i]) :
            LET call == flushes[i].calls[c]
            IN  (Len(call.batch) = 1 /\ call.res \in PutFailures) =>
                    /\ \A d \in PutCalls(flushes[i]) :
                          d > c => call.batch[1].id \notin Ids(flushes[i].calls[d].batch)
                    /\ Senders(call.batch[1].id) = {i}

----------------------------------------------------------------------------
\* The buffers as the application sees them: per key, the events of its array.
BufferContents ==
    [k \in DOMAIN bufferedLogs |->
        [key |-> bufferedLogs[k].key, logs |-> arr[bufferedLogs[k].ref]]]

\* A step in which a flush goes on after the answer to a remote call, and the call
\* failed.
FailureStep ==
    \E i \in DOMAIN flushes :
        /\ InFlight(flushes[i])
        /\ flushes'[i].calls[Len(flushes[i].calls)].res \in
              (PutFailures \cup {"ServiceUnavailableException"})

\* The events a flush took whose delivery failed for good: it reported a flushing
\* error about their destination.
FailedEvents(f) ==
    UNION {Ids(f.snap[j].raw) :
              j \in {x \in DOMAIN f.snap : TerminalReports(f, f.snap[x].key) # {}}}

\* C25: the step in which a create or put-batch call of a flush fails leaves every
\* buffer as it was, and after it no event whose delivery failed is in a buffer,
\* in the snapshot of another flush or in a put-batch call of another flush.
C25_Step ==
    /\ FailureStep => BufferContents' = BufferContents
    /\ \A i \in DOMAIN flushes' :
          \A id \in FailedEvents(flushes'[i]) :
              /\ id \notin Buffered'
              /\ Snapshots(id)' = {i}
              /\ Senders(id)' \subseteq {i}

C25_FailureLeavesBuffers == [][C25_Step]_vars

\* The delivery of event 1 failed for good in one flush, and a later flush has
\* delivered another event while a third event may wait in a buffer.
C25_Witness ==
    \E i, k \in DOMAIN flushes :
        /\ i < k
        /\ flushes[i].pc = "done"
        /\ FailedEvents(flushes[i]) # {}
        /\ flushes[k].pc = "done"
        /\ Clean(flushes[k])
        /\ Sent(flushes[k]) # <<>>

----------------------------------------------------------------------------
\* The remote calls of a flush for a destination that failed (the sink answered
\* with an error that createLogGroup and createLogStream do not take as success),
\* and the first of them: the failure of the first delivery attempt.
FailedCalls(f, key) ==
    {c \in CallsFor(f, key) : f.calls[c].res \in PutFailures}
FirstFailure(f, key) ==
    CHOOSE c \in FailedCalls(f, key) : \A d \in FailedCalls(f, key) : c <= d

\* The diagnostic sends of a flush about a destination.
DiagsAbout(f, key) == {c \in Diags(f) : f.calls[c].about = key}

\* C26: when the first delivery attempt of a flush for a destination has failed,
\* the call issued right after the failed one is the diagnostic send "flushing
\* error (will retry)" to (cloudwatch_logger, errors); it is the only report of
\* that kind, and the only diagnostic send issued before the first call of the
\* retry, which follows it.
C26_OneDiagnosticBeforeRetry ==
    \A i \in DOMAIN flushes :
        \A j \in DOMAIN flushes[i].snap :
            LET f == flushes[i]
                key == f.snap[j].key
            IN  FailedCalls(f, key) # {} =>
                    LET c == FirstFailure(f, key)
                        later == {d \in CallsFor(f, key) : d > c}
                    IN  /\ c + 1 \in DOMAIN f.calls
                        /\ f.calls[c + 1].op = "PutLogEvents"
                        /\ f.calls[c + 1].dest = <<"cloudwatch_logger", "errors">>
                        /\ RetryReports(f, key) = {c + 1}
                        /\ later # {}
                        /\ \A d \in later :
                              c + 1 \in {x \in DiagsAbout(f, key) : x < d}
                        /\ \E d \in later :
                              {x \in DiagsAbout(f, key) : x < d} = {c + 1}

\* The first put-batch call of a flush failed, one diagnostic was sent, and the
\* retry delivered the batch.
C26_Witness ==
    \E i \in DOMAIN flushes :
        LET f == flushes[i]
        IN  /\ f.pc = "done"
            /\ Len(f.snap) = 1
            /\ Len(f.snap[1].raw) = 2
            /\ Cardinality(Diags(f)) = 1
            /\ Cardinality(PutCallsTo(f, f.snap[1].key)) = 3
            /\ f.calls[FirstFailure(f, f.snap[1].key)].op = "PutLogEvents"

----------------------------------------------------------------------------
\* C27: a failure of the put-batch call that logError issues is handled where it
\* happens: it is never left as the rejection of a promise that nothing handles.
C27_DiagnosticFailureHandled == ~unhandledRejection

----------------------------------------------------------------------------
(* SpecFair: two destinations, a sink whose every call succeeds or fails,   *)
(* and every remote call returns: the answer to a call a flush awaits      *)
(* comes, and a call that returned at once is resumed.                     *)

LogPlain ==
    /\ Len(logged) < MaxLogs
    /\ \E key \in Dests : LogCall(key, 100, SmallMsg)

NextFair ==
    \/ LogPlain
    \/ ManualFlush
    \/ Tick
    \/ CreateLogGroupAnswer(CreateOkOrDown)
    \/ CreateLogStreamAnswer(CreateOkOrDown)
    \/ PutLogEventsAnswer(PutOkOrDown)
    \/ Resumption

Fairness ==
    /\ WF_vars(CreateLogGroupAnswer(CreateOkOrDown))
    /\ WF_vars(CreateLogStreamAnswer(CreateOkOrDown))
    /\ WF_vars(PutLogEventsAnswer(PutOkOrDown))
    /\ WF_vars(Resumption)

SpecFair == Init /\ [][NextFair]_vars /\ Fairness

----------------------------------------------------------------------------
----------------------------------------------------------------------------
\* A create-stream call for the destination was answered with success, or with
\* ResourceAlreadyExists, which createLogStream takes as success.
StreamEnsured(dest) ==
    \E k \in DOMAIN flushes :
        \E d \in DOMAIN flushes[k].calls :
            /\ flushes[k].calls[d].op = "CreateLogStream"
            /\ flushes[k].calls[d].dest = dest
            /\ flushes[k].calls[d].res \in ExistsOrOk

\* C29: whenever a put-batch call has been issued, to a destination of the
\* application or to (cloudwatch_logger, errors), a createLogStream for that
\* destination has completed successfully: in every state, from the one in which
\* the call is issued on.
C29_PutAfterCreateLogStream ==
    \A i \in DOMAIN flushes :
        \A c \in DOMAIN flushes[i].calls :
            flushes[i].calls[c].op = "PutLogEvents" =>
                StreamEnsured(flushes[i].calls[c].dest)

----------------------------------------------------------------------------
\* C30: no step removes an entry of the registry: a group that is recorded stays
\* recorded, and so does every stream recorded under it.
C30_Step ==
    \A g \in DOMAIN logGroups :
        /\ g \in DOMAIN logGroups'
        /\ Range(logGroups[g]) \subseteq Range(logGroups'[g])

C30_RegistryOnlyGrows == [][C30_Step]_vars

----------------------------------------------------------------------------
\* The answers with which a create call fails: an error that is not
\* ResourceAlreadyExists.
CreateFailures == CreateResults \ ExistsOrOk

\* C31: when a create-group or create-stream call is answered with an error other
\* than ResourceAlreadyExists, the registry stays as it is, and what createLogGroup
\* or createLogStream raises is a new Error whose cause is the answer: _flush
\* catches it wrapped by the callers in between (createLogStream and putEventLogs
\* for createLogGroup, putEventLogs for createLogStream).
C31_Step ==
    \A i \in DOMAIN flushes :
        \A r \in CreateFailures :
            /\ AnsweredNow(i, "cg", r) =>
                  /\ logGroups' = logGroups
                  /\ ~flushes[i].retry =>
                        Tail(Tail(flushes'[i].error)) = <<"Error", r>>
            /\ AnsweredNow(i, "cs", r) =>
                  /\ logGroups' = logGroups
                  /\ ~flushes[i].retry =>
                        Tail(flushes'[i].error) = <<"Error", r>>

C31_CreateFailureWrapped == [][C31_Step]_vars

\* One flush caught the failure of its create-group call and another one the
\* failure of its create-stream call, while the registry has the group.
C31_Witness ==
    \E i, k \in DOMAIN flushes :
        /\ flushes[i].error = <<"Error", "Error", "Error", "ServiceUnavailableException">>
        /\ flushes[k].error = <<"Error", "Error", "ServiceUnavailableException">>
        /\ logGroups # <<>>

----------------------------------------------------------------------------
\* C32: a tick of the timer starts exactly one flush when some buffer has logs,
\* and when every buffer is empty it changes nothing: no variable of the logger,
\* no flush started, no remote call issued.
C32_Step ==
    Tick =>
        IF HasLogs(Now)
        THEN /\ Len(flushes') = Len(flushes) + 1
             /\ Drained(flushes'[Len(flushes')]) # <<>>
        ELSE UNCHANGED vars

C32_TickFlushesIffLogs == [][C32_Step]_vars

\* A tick has started a flush: the flush has captured events, and no flush() was
\* called by log(); the buffers it left are empty, so that the next tick is idle.
C32_Witness ==
    /\ flushIntervalInterval.armed
    /\ Len(flushes) = 1
    /\ Drained(flushes[1]) # <<>>
    /\ \A n \in DOMAIN logged : ~logged[n].limit
    /\ bufferedLogs # <<>>
    /\ ~HasLogs(Now)

----------------------------------------------------------------------------
(* SpecReconf: the module-level logger whose flush interval the application *)
(* sets again and again, before and after setup(), up to the start of the   *)
(* throttled functions of the flushes its timers start.                     *)

NextReconf ==
    \/ Setup
    \/ Reconfigure
    \/ AddLog
    \/ RunImmediate
    \/ ModuleTick
    \/ ThrottleStarts

SpecReconf == InitModule /\ [][NextReconf]_vars

----------------------------------------------------------------------------
\* The timers that are active: the ones whose callback the runtime still calls.
ActiveTimers == {t \in DOMAIN mod.timers : mod.timers[t].active}

\* C33: at most one timer is active, and an active timer is the one created by the
\* latest setting of the flush interval: #interval refers to it and its delay is
\* the value set last.
C33_OneActiveTimer ==
    /\ Cardinality(ActiveTimers) <= 1
    /\ \A t \in ActiveTimers :
          /\ t = mod.handle
          /\ t = Len(mod.timers)
          /\ mod.timers[t].delay = SetInterval(mod.value).delay

\* The interval was set three times, to different values, and a flush was started
\* by a tick of the timer.
C33_Witness ==
    /\ Len(mod.timers) = 3
    /\ mod.timers[1].delay # mod.timers[2].delay
    /\ mod.timers[2].delay # mod.timers[3].delay
    /\ ActiveTimers = {3}
    /\ mod.flushes # <<>>

----------------------------------------------------------------------------
\* C34: a log() that finds the limit reached starts a flush that takes every event
\* the buffers had and not the event of this call; the event, when log() pushes
\* it, is then the only event of its destination's buffer; and log() returns
\* while that flush still awaits something.
C34_Step ==
    (Len(logged') > Len(logged) /\ logged'[Len(logged')].limit) =>
        LET call == logged'[Len(logged')]
            f == flushes'[Len(flushes')]
        IN  /\ Len(flushes') = Len(flushes) + 1
            /\ Ids(Drained(f)) = Buffered
            /\ call.log.id \notin Ids(Drained(f))
            /\ f.pc # "done"
            /\ call.pushed =>
                  /\ Len(arr'[RefOf(bufferedLogs', call.key)]) = 1
                  /\ arr'[RefOf(bufferedLogs', call.key)][1].id = call.log.id
            /\ \A k \in DOMAIN bufferedLogs' :
                  bufferedLogs'[k].key # call.key => arr'[bufferedLogs'[k].ref] = <<>>

C34_FlushBeforePush == [][C34_Step]_vars

\* A log() of a message that is not oversized found the limit reached by the three
\* events in the buffer: they are in the flush it started, and its event is alone
\* in the buffer while that flush awaits a remote call.
C34_Witness ==
    /\ Len(logged) = 4
    /\ logged[4].limit
    /\ ~logEventExceedsSize(logged[4].log)
    /\ Len(flushes) = 1
    /\ InFlight(flushes[1])
    /\ Ids(Drained(flushes[1])) = {1, 2, 3}
    /\ Buffered = {4}

----------------------------------------------------------------------------
(* SpecHandle: the module-level logger with the Logger handles the          *)
(* application creates, before and after events were added.                 *)

NextHandle ==
    \/ Setup
    \/ AddLog
    \/ RunImmediate
    \/ NewLogger
    \/ RegistrationStarts
    \/ RegistrationAnswer(CreateOkOrDown)
    \/ Advance

SpecHandle == InitModule /\ [][NextHandle]_vars

\* C35: a step that creates a Logger handle leaves every buffer with the events
\* it had.
C35_Step ==
    Len(mod'.regs) > Len(mod.regs) =>
        \A b \in DOMAIN mod.bufferedLogs :
            mod'.bufferedLogs[b] = mod.bufferedLogs[b]

C35_HandleKeepsEvents == [][C35_Step]_vars

----------------------------------------------------------------------------
(* SpecResend: a sink that answers a put-batch call with status 200, with   *)
(* another status, or with an error.                                        *)

NextResend ==
    \/ LogPlain
    \/ ManualFlush
    \/ Tick
    \/ CreateLogGroupAnswer({"ok"})
    \/ CreateLogStreamAnswer({"ok"})
    \/ PutLogEventsAnswer(PutResults)
    \/ PutLogEventsAgainAnswer(PutResults)
    \/ Resumption

SpecResend == Init /\ [][NextResend]_vars

\* The call n of f repeats the call before it: a put-batch call with the same
\* destination and the same events.
Repeats(f, n) ==
    /\ n > 1
    /\ f.calls[n].op = "PutLogEvents"
    /\ f.calls[n - 1].op = "PutLogEvents"
    /\ f.calls[n].dest = f.calls[n - 1].dest
    /\ f.calls[n].batch = f.calls[n - 1].batch

\* C36: when the first put-batch call of a putEventLogs is answered without error
\* and with a status other than 200, putEventLogs makes the call once more, with
\* the same events, and awaits it; when it is answered with status 200 or with
\* an error, and when the second call is answered with anything, putEventLogs
\* makes no further call.
C36_Step ==
    \A i \in DOMAIN flushes : \A r \in PutResults :
        LET n == Len(flushes[i].calls)
            g == flushes'[i]
        IN  /\ AnsweredNow(i, "put", r) =>
                IF r \notin PutFailures /\ r # "200"
                THEN /\ g.pc = "put2"
                     /\ Len(g.calls) = n + 1
                     /\ Repeats(g, n + 1)
                     /\ g.calls[n + 1].res = "pending"
                ELSE g.pc # "put2"
            /\ AnsweredNow(i, "put2", r) =>
                /\ g.pc # "put2"
                /\ Repeats(flushes[i], n)
                /\ flushes[i].calls[n - 1].res \notin PutFailures \cup {"200", "pending"}

C36_AtMostTwoPuts == [][C36_Step]_vars

\* A flush of one event is done after two put-batch calls with that event: the
\* first was answered with status 202, the second with status 200.
C36_Witness ==
    \E i \in DOMAIN flushes :
        LET f == flushes[i]
            n == Len(f.calls)
        IN  /\ f.pc = "done"
            /\ Cardinality(PutCalls(f)) = 2
            /\ Repeats(f, n)
            /\ f.calls[n].batch # <<>>
            /\ f.calls[n - 1].res = "202"
            /\ f.calls[n].res = "200"

====
